---- MODULE Spec2Model ----
(***************************************************************************)
(* A model of internal/main.go of gcp-signed-urls: the three helpers        *)
(* GenerateUploadPolicy, CreateGzippedFile and UploadFileWithPolicy, and    *)
(* the linear script main that calls them.                                  *)
(*                                                                          *)
(* Strings are sequences of one-character strings, so that concatenation    *)
(* and the starts-with test are computed and not assumed.  Go's int64 is a  *)
(* sequence of eight base-256 limbs, least significant first, in two's      *)
(* complement, so that the wrap-around of a multiplication is computed.     *)
(***************************************************************************)
EXTENDS Integers, Sequences, FiniteSets, TLC

VARIABLES
    pc,        \* main: the position of the script
    calls,     \* main: the helpers called so far, in order, each with its error
    jobID,     \* main: the value of uuid.New().String()
    policy,    \* main: the *storage.PostPolicyV4 held by main
    prefix,    \* main: the prefix returned by GenerateUploadPolicy
    file,      \* the contents of the file at localFile / filePath
    upl,       \* UploadFileWithPolicy: its locals (multipart writer, response)
    requests,  \* the HTTP requests handed to http.DefaultClient.Do
    stdout,    \* the lines printed on standard output
    polCall,   \* the latest call of GenerateUploadPolicy: inputs and results
    scopes,    \* the (username, jobID, prefix) of the policies issued so far
    gzCall     \* the latest call of CreateGzippedFile: inputs and results

vars == <<pc, calls, jobID, policy, prefix, file, upl, requests, stdout,
          polCall, scopes, gzCall>>

mainVars == <<pc, calls, jobID, policy, prefix, upl, requests, stdout>>

----------------------------------------------------------------------------
(* Bounds of the model. *)

\* The longest username and jobID drawn for GenerateUploadPolicy.
MaxNameLen == 2

\* The longest content drawn for CreateGzippedFile.
MaxContentLen == 2

\* The number of policies issued side by side when scopes are compared.
MaxPolicies == 2

----------------------------------------------------------------------------
(* Strings. *)

IsPrefix(p, s) == Len(p) <= Len(s) /\ SubSeq(s, 1, Len(p)) = p

IsSuffix(p, s) == Len(p) <= Len(s) /\ SubSeq(s, Len(s) - Len(p) + 1, Len(s)) = p

StringsOver(alphabet, n) == UNION {[1..k -> alphabet] : k \in 0..n}

\* The characters usernames and job ids are drawn from; "/" is the separator
\* the prefix is built with.
NameAlphabet == {"a", "/"}

Names == StringsOver(NameAlphabet, MaxNameLen)

----------------------------------------------------------------------------
(* Go's int64, as eight base-256 limbs, least significant first. *)

LimbBase == 256

Int64Limbs == 8

\* The limbs of the non-negative integer n < 2^31, in w limbs.
RECURSIVE NatLimbs(_, _)
NatLimbs(n, w) == IF w = 0 THEN <<>>
                  ELSE <<n % LimbBase>> \o NatLimbs(n \div LimbBase, w - 1)

\* Two's complement negation in w limbs: invert and add one.
RECURSIVE AddOne(_)
AddOne(a) == IF a = <<>> THEN <<>>
             ELSE IF Head(a) = LimbBase - 1 THEN <<0>> \o AddOne(Tail(a))
             ELSE <<Head(a) + 1>> \o Tail(a)

NegLimbs(a) == AddOne([i \in 1..Len(a) |-> LimbBase - 1 - a[i]])

\* int64(n) for a model integer n.
I64(n) == IF n >= 0 THEN NatLimbs(n, Int64Limbs) ELSE NegLimbs(NatLimbs(-n, Int64Limbs))

IsNegative(a) == a[Len(a)] >= LimbBase \div 2

IsZero(a) == \A i \in 1..Len(a) : a[i] = 0

IsPositive(a) == ~IsNegative(a) /\ ~IsZero(a)

\* Sign extension of a to w limbs.
SignExt(a, w) == [i \in 1..w |-> IF i <= Len(a) THEN a[i]
                                 ELSE IF IsNegative(a) THEN LimbBase - 1 ELSE 0]

\* The sum over i + j = k + 1 of a[i] * b[j] (column k of the schoolbook product).
RECURSIVE Column(_, _, _, _)
Column(a, b, k, i) ==
    IF i > k THEN 0 ELSE a[i] * b[k - i + 1] + Column(a, b, k, i + 1)

\* The low Len(a) limbs of a * b, from column k on, with the carry coming in.
RECURSIVE MulFrom(_, _, _, _)
MulFrom(a, b, k, carry) ==
    IF k > Len(a) THEN <<>>
    ELSE LET s == Column(a, b, k, 1) + carry
         IN  <<s % LimbBase>> \o MulFrom(a, b, k + 1, s \div LimbBase)

\* a * b in Len(a) = Len(b) limbs: the product modulo LimbBase^Len(a), which is
\* Go's wrapping multiplication of signed integers of that width.
MulWrap(a, b) == MulFrom(a, b, 1, 0)

\* time.Minute: 60 * Second, Second = 1000 * Millisecond, ... down to Nanosecond = 1.
Minute == MulWrap(I64(60), MulWrap(I64(1000), MulWrap(I64(1000), I64(1000))))

\* time.Duration(expireMinutes) * time.Minute, an int64 multiplication.
ExpireDuration(expireMinutes) == MulWrap(expireMinutes, Minute)

\* The product of a and b as integers: computed in twice the width, where the
\* product of two int64 always fits.
ExactProduct(a, b) == MulWrap(SignExt(a, 2 * Len(a)), SignExt(b, 2 * Len(b)))

MaxInt64 == [i \in 1..Int64Limbs |-> IF i = Int64Limbs THEN LimbBase \div 2 - 1 ELSE LimbBase - 1]

MinInt64 == [i \in 1..Int64Limbs |-> IF i = Int64Limbs THEN LimbBase \div 2 ELSE 0]

\* The values of expireMinutes tried: main's 15, zero, a negative one, the
\* largest value whose product fits an int64 (153722867), its successor, the
\* largest int of a 32-bit build and the two ends of int64.
ExpireMinutesValues ==
    {I64(0), I64(1), I64(15), I64(-15), I64(153722867), I64(153722868),
     I64(2147483647), MaxInt64, MinInt64}

----------------------------------------------------------------------------
(* Errors: nil, or a message wrapping a cause; an upload failure carries the  *)
(* HTTP status and the response body.                                         *)

Err(msg, status, body) == [msg |-> msg, status |-> status, body |-> body]

Nil == Err("nil", 0, <<>>)

Wrap(msg) == Err(msg, 0, <<>>)

----------------------------------------------------------------------------
(* GenerateUploadPolicy *)

Slash == <<"/">>

FilenameVar == <<"$", "{", "f", "i", "l", "e", "n", "a", "m", "e", "}">>

\* A slip: the separator after the job id is left out.
PolicyPrefixNoTrailingSlash(username, job) == username \o Slash \o job

\* prefix := fmt.Sprintf("%s/%s/", username, jobID)
PolicyPrefix(username, job) == username \o Slash \o job \o Slash

\* objectKey := prefix + "${filename}"
PolicyObjectKey(pfx) == pfx \o FilenameVar

ConditionStartsWith(field, value) ==
    [op |-> "starts-with", field |-> field, value |-> value]

\* t.Add(d): the instant d nanoseconds after t.  d is kept beside t, as the
\* signed 64-bit number the caller computed.
TimeAdd(t, d) == [wall |-> t, add |-> d]

\* opts := &storage.PostPolicyV4Options{Expires, Fields, Conditions}
PolicyOptions(pfx, now, expireMinutes) ==
    [Expires         |-> TimeAdd(now, ExpireDuration(expireMinutes)),
     ContentEncoding |-> <<"g", "z", "i", "p">>,
     Conditions      |-> <<ConditionStartsWith("$key", pfx),
                           ConditionStartsWith("$Content-Encoding", <<>>)>>]

\* What client.Bucket(bucket).GenerateSignedPostPolicyV4(objectKey, opts) gives
\* back on success: the URL to post to and the form fields to send (the key
\* template, the fields asked for, the encoded policy document and its
\* signature), with the conditions and the expiry the document was signed over.
SignedPostPolicyV4(bucket, objectKey, opts) ==
    [URL        |-> <<"https://storage.googleapis.com/">> \o bucket,
     Fields     |-> ("key" :> objectKey)
                     @@ ("Content-Encoding" :> opts.ContentEncoding)
                     @@ ("policy" :> <<"policy-document">>)
                     @@ ("x-goog-signature" :> <<"signature">>),
     Conditions |-> opts.Conditions,
     Expires    |-> opts.Expires]

\* The nil *storage.PostPolicyV4.
NoPolicy == [URL |-> <<>>, Fields |-> <<>>, Conditions |-> <<>>,
             Expires |-> TimeAdd("never", I64(0))]

\* GenerateUploadPolicy(ctx, client, bucket, username, jobID, expireMinutes),
\* called at the instant now; sdkErr tells whether the SDK call fails.
GenerateUploadPolicy(bucket, username, job, expireMinutes, now, sdkErr) ==
    LET pfx       == PolicyPrefix(username, job)
        objectKey == PolicyObjectKey(pfx)
        opts      == PolicyOptions(pfx, now, expireMinutes)
    IN  IF sdkErr
        THEN [policy |-> NoPolicy, prefix |-> <<>>,
              err |-> Wrap("GenerateSignedPostPolicyV4")]
        ELSE [policy |-> SignedPostPolicyV4(bucket, objectKey, opts),
              prefix |-> pfx, err |-> Nil]

Buckets == {<<>>, <<"b">>}

Instants == {"t0", "t1"}

NoPolCall == [called |-> FALSE, username |-> <<>>, jobID |-> <<>>,
              expireMinutes |-> I64(0), now |-> "t0",
              res |-> [policy |-> NoPolicy, prefix |-> <<>>, err |-> Nil]]

\* A caller calls GenerateUploadPolicy with any arguments (the function keeps no
\* state between calls, so one call per behaviour shows all it can do).
CallGenerateUploadPolicy ==
    /\ ~polCall.called
    /\ \E bucket \in Buckets, username \in Names, job \in Names,
          expireMinutes \in ExpireMinutesValues, now \in Instants, sdkErr \in BOOLEAN :
          polCall' = [called |-> TRUE, username |-> username, jobID |-> job,
                      expireMinutes |-> expireMinutes, now |-> now,
                      res |-> GenerateUploadPolicy(bucket, username, job,
                                                   expireMinutes, now, sdkErr)]
    /\ UNCHANGED <<mainVars, file, scopes, gzCall>>

\* The policy server's test of a starts-with condition on the object key.
AcceptsKey(cond, key) == cond.op = "starts-with" /\ IsPrefix(cond.value, key)

\* Policies are issued for several (username, jobID) pairs, at one instant and
\* for main's 15 minutes; the scope of each one issued is kept.
IssuePolicy ==
    /\ Cardinality(scopes) < MaxPolicies
    /\ \E bucket \in Buckets, username \in Names, job \in Names, sdkErr \in BOOLEAN :
          LET r == GenerateUploadPolicy(bucket, username, job, I64(15), "t0", sdkErr)
          IN  scopes' = IF r.err = Nil
                        THEN scopes \cup {[username |-> username, jobID |-> job,
                                           prefix |-> r.prefix,
                                           keyCondition |-> r.policy.Conditions[1]]}
                        ELSE scopes
    /\ UNCHANGED <<mainVars, file, polCall, gzCall>>

----------------------------------------------------------------------------
(* CreateGzippedFile.  A gzip stream is a header, the deflated data, an end-of- *)
(* data mark, and a trailer of two words: a checksum of the data and its       *)
(* length.  Deflate is modelled by its run-length case (a repeated byte becomes *)
(* one run), CRC-32 by a positional checksum.                                   *)

Tok(t, c, n) == [t |-> t, c |-> c, n |-> n]

GzipHeader == <<Tok("hdr", "", 0)>>

ContentAlphabet == {"x", "y"}

Contents == StringsOver(ContentAlphabet, MaxContentLen)

\* The number of a byte.
Code(ch) == IF ch = "x" THEN 1 ELSE IF ch = "y" THEN 2 ELSE 3

ChecksumModulus == 65521

ChecksumFactor == 31

\* crc32.Update(crc, table, p): the checksum crc carried on over the bytes of p,
\* one byte after the other (a long p is cut in two, the first half first, and
\* the checksum of the first half is computed before the second is begun).
RECURSIVE CrcUpdate(_, _)
CrcUpdate(crc, p) ==
    IF p = <<>> THEN crc
    ELSE IF Len(p) = 1 THEN (crc * ChecksumFactor + Code(p[1])) % ChecksumModulus
    ELSE LET h   == Len(p) \div 2
             mid == CrcUpdate(crc, SubSeq(p, 1, h))
         IN  IF mid < 0 THEN mid ELSE CrcUpdate(mid, SubSeq(p, h + 1, Len(p)))

\* Two sequences of runs joined: a run that ends the first and a run of the same
\* byte that starts the second are one run.
JoinRuns(r1, r2) ==
    IF r1 # <<>> /\ r2 # <<>> /\ r1[Len(r1)].c = r2[1].c
    THEN SubSeq(r1, 1, Len(r1) - 1)
           \o <<Tok("run", r2[1].c, r1[Len(r1)].n + r2[1].n)>>
           \o Tail(r2)
    ELSE r1 \o r2

\* The runs of data: each maximal block of one repeated byte becomes one token.
RECURSIVE Deflate(_)
Deflate(data) ==
    IF data = <<>> THEN <<>>
    ELSE IF Len(data) = 1 THEN <<Tok("run", data[1], 1)>>
    ELSE LET h == Len(data) \div 2
         IN  JoinRuns(Deflate(SubSeq(data, 1, h)), Deflate(SubSeq(data, h + 1, Len(data))))

\* The byte ch, n times.
Repeat(ch, n) == [i \in 1..n |-> ch]

\* The data a sequence of runs stands for.
RECURSIVE Inflate(_)
Inflate(runs) ==
    IF runs = <<>> THEN <<>>
    ELSE IF Len(runs) = 1 THEN Repeat(runs[1].c, runs[1].n)
    ELSE LET h == Len(runs) \div 2
         IN  Inflate(SubSeq(runs, 1, h)) \o Inflate(SubSeq(runs, h + 1, Len(runs)))

\* gz := gzip.NewWriter(&buf), with buf the empty bytes.Buffer.
NewGzipWriter ==
    [out |-> <<>>, pending |-> <<>>, crc |-> 0, size |-> 0, wroteHeader |-> FALSE]

\* gz.Write(p): the header goes out with the first write; the data is handed to
\* the compressor, which holds it until it is flushed.
GzipWrite(w, p) ==
    [out         |-> IF w.wroteHeader THEN w.out ELSE w.out \o GzipHeader,
     pending     |-> w.pending \o p,
     crc         |-> CrcUpdate(w.crc, p),
     size        |-> w.size + Len(p),
     wroteHeader |-> TRUE]

\* gz.Close(): writes the header if nothing was written, flushes the compressor
\* with the end-of-data mark, and writes the trailer.
GzipClose(w) ==
    LET h == GzipWrite(w, <<>>)
    IN  [h EXCEPT !.out = h.out \o Deflate(h.pending) \o <<Tok("end", "", 0)>>
                                \o <<Tok("crc", "", h.crc), Tok("isize", "", h.size)>>,
                  !.pending = <<>>]

\* The file is a single complete gzip stream: a header, runs, the end mark and
\* a trailer that matches the data, and nothing after it.
IsGzipStream(f) ==
    /\ Len(f) >= 4
    /\ f[1].t = "hdr"
    /\ \A i \in 2..(Len(f) - 3) : f[i].t = "run" /\ f[i].n >= 1
    /\ f[Len(f) - 2].t = "end"
    /\ f[Len(f) - 1].t = "crc"
    /\ f[Len(f)].t = "isize"
    /\ LET data == Inflate(SubSeq(f, 2, Len(f) - 3))
       IN  f[Len(f) - 1].n = CrcUpdate(0, data) /\ f[Len(f)].n = Len(data)

\* What gzip.NewReader followed by io.ReadAll gives for a gzip stream.
Gunzip(f) == Inflate(SubSeq(f, 2, Len(f) - 3))

\* A slip: the buffer is taken before gz.Close(), so the compressor is not
\* flushed and the trailer is missing.
GzippedBytesBeforeClose(content) == GzipWrite(NewGzipWriter, content).out

\* buf.Bytes() at the call of os.WriteFile: after gz.Write and gz.Close.
GzippedBytes(content) == GzipClose(GzipWrite(NewGzipWriter, content)).out

Prefixes(b) == {SubSeq(b, 1, n) : n \in 0..Len(b)}

\* What os.WriteFile(filePath, b, 0644) can leave at filePath when it fails:
\* the old contents (the file could not be opened), or, once the file is opened
\* and truncated, any part of b written so far.
WriteFileFailures(old, b) == {old} \cup Prefixes(b)

\* The results of CreateGzippedFile(filePath, content) with old at filePath:
\* the error returned and the contents of the file afterwards.  The writes of
\* gzip go to a bytes.Buffer; the code tests their errors, so both results are
\* modelled.
CreateGzippedFile(old, content) ==
    {[err |-> Wrap("gzip write"), file |-> old],
     [err |-> Wrap("gzip close"), file |-> old],
     [err |-> Nil, file |-> GzippedBytes(content)]}
    \cup
    {[err |-> Wrap("write gz file"), file |-> f] :
        f \in WriteFileFailures(old, GzippedBytes(content))}

\* What can be at filePath before the program runs: nothing, or the stream an
\* earlier run left.
InitialFiles == {<<>>, GzippedBytes(<<"y">>)}

NoGzCall == [called |-> FALSE, content |-> <<>>, old |-> <<>>, err |-> Nil]

\* A caller calls CreateGzippedFile with any content, on the file as it is.
CallCreateGzippedFile ==
    /\ \E content \in Contents :
          \E r \in CreateGzippedFile(file, content) :
              /\ file' = r.file
              /\ gzCall' = [called |-> TRUE, content |-> content, old |-> file,
                            err |-> r.err]
    /\ UNCHANGED <<mainVars, polCall, scopes>>

----------------------------------------------------------------------------
(* UploadFileWithPolicy and main. *)

\* username := "alice"
Alice ==
    <<"a", "l", "i", "c", "e">>

\* Values of uuid.New().String().
UUIDs ==
    {
      <<"3", "f", "2", "5", "0", "4", "e", "0", "-", "4", "f", "8", "9",
        "-", "4", "1", "d", "3", "-", "9", "a", "0", "c", "-", "0", "3",
        "0", "5", "e", "8", "2", "c", "3", "3", "0", "1">>,
      <<"9", "b", "2", "e", "1", "c", "7", "a", "-", "5", "d", "4", "0",
        "-", "4", "c", "1", "e", "-", "8", "f", "6", "b", "-", "7", "a",
        "1", "d", "2", "e", "3", "c", "4", "b", "5", "f">>
    }

\* localFile := "/tmp/test.gz"
LocalFile ==
    <<"/", "t", "m", "p", "/", "t", "e", "s", "t", ".", "g", "z">>

\* objectName := "test.gz"
ObjectName ==
    <<"t", "e", "s", "t", ".", "g", "z">>

\* content := "Hello world! ..."
MainContent ==
    <<"H", "e", "l", "l", "o", " ", "w", "o", "r", "l", "d", "!", " ", "T",
      "h", "i", "s", " ", "i", "s", " ", "a", " ", "t", "e", "s", "t", " ",
      "f", "i", "l", "e", " ", "f", "o", "r", " ", "G", "C", "S", " ", "u",
      "p", "l", "o", "a", "d", ".", "\n", "L", "i", "n", "e", " ", "2",
      " ", "o", "f", " ", "t", "h", "e", " ", "f", "i", "l", "e", ".">>

\* http.StatusOK and http.StatusNoContent
StatusOK == 200

StatusNoContent == 204

\* The statuses a response is given: the two the code accepts, other 2xx, and
\* 3xx, 4xx and 5xx ones.
Statuses == {200, 201, 202, 204, 206, 301, 304, 400, 403, 404, 500, 503}

ResponseBodies == {<<>>, <<"AccessDenied">>}

\* A slip: every 2xx status is taken for a success.
StatusAcceptedAny2xx(status) == status \in 200..299

\* !(resp.StatusCode != http.StatusNoContent && resp.StatusCode != http.StatusOK)
StatusAccepted(status) == ~(status # StatusNoContent /\ status # StatusOK)

\* A slip: the error is logged and the script goes on.
MainAfterIgnoringError(err, here, next) == next

\* A slip: the failed step is run again.
MainAfterRetrying(err, here, next) == IF err # Nil THEN here ELSE next

\* if err != nil { log.Fatalf(...) }: the process exits at once, else main goes on.
MainAfter(err, here, next) == IF err # Nil THEN "Fatal" ELSE next

FieldPart(k, v) == [name |-> k, filename |-> <<>>, value |-> v, data |-> <<>>]

FilePart(filename) == [name |-> "file", filename |-> filename, value |-> <<>>, data |-> <<>>]

\* A slip: writer.Close() is left out, so the final boundary is never written.
WriterCloseForgotten(w) == w

\* writer.Close(): the final boundary is written.
WriterClose(w) == [w EXCEPT !.closed = TRUE]

\* The locals of UploadFileWithPolicy before it is called.
NoUpl == [objectKey |-> <<>>, parts |-> <<>>, todo |-> {}, closed |-> FALSE,
          status |-> 0, body |-> <<>>]

Printed(msg, arg) == [msg |-> msg, arg |-> arg]

\* UploadFileWithPolicy returns err to main, which exits fatally or ends.
UploadReturns(err) ==
    /\ calls' = Append(calls, [fn |-> "UploadFileWithPolicy", err |-> err])
    /\ pc' = MainAfter(err, "UploadFileWithPolicy", "Exit")

\* client, err := storage.NewClient(ctx); then the script's constants are set.
MainNewClient ==
    /\ pc = "NewClient"
    /\ \E failed \in BOOLEAN :
          LET err == IF failed THEN Wrap("storage.NewClient") ELSE Nil
          IN  /\ calls' = Append(calls, [fn |-> "storage.NewClient", err |-> err])
              /\ pc' = MainAfter(err, "NewClient", "GenerateUploadPolicy")
              /\ IF failed THEN jobID' = jobID ELSE jobID' \in UUIDs
    /\ UNCHANGED <<policy, prefix, file, upl, requests, stdout, polCall, scopes, gzCall>>

\* policy, prefix, err := GenerateUploadPolicy(ctx, client, bucket, username, jobID, 15)
\* and, on success, the print of the policy.
MainGenerateUploadPolicy ==
    /\ pc = "GenerateUploadPolicy"
    /\ \E bucket \in Buckets, now \in Instants, sdkErr \in BOOLEAN :
          LET r == GenerateUploadPolicy(bucket, Alice, jobID, I64(15), now, sdkErr)
          IN  /\ policy' = r.policy
              /\ prefix' = r.prefix
              /\ calls' = Append(calls, [fn |-> "GenerateUploadPolicy", err |-> r.err])
              /\ pc' = MainAfter(r.err, "GenerateUploadPolicy", "CreateGzippedFile")
              /\ stdout' = IF pc' = "CreateGzippedFile"
                           THEN Append(stdout, Printed("Generated POST policy:", <<>>))
                           ELSE stdout
    /\ UNCHANGED <<jobID, file, upl, requests, polCall, scopes, gzCall>>

\* if err := CreateGzippedFile(localFile, content); err != nil { log.Fatalf }
MainCreateGzippedFile ==
    /\ pc = "CreateGzippedFile"
    /\ \E r \in CreateGzippedFile(file, MainContent) :
          /\ file' = r.file
          /\ calls' = Append(calls, [fn |-> "CreateGzippedFile", err |-> r.err])
          /\ pc' = MainAfter(r.err, "CreateGzippedFile", "UploadFileWithPolicy")
    /\ UNCHANGED <<jobID, policy, prefix, upl, requests, stdout, polCall, scopes, gzCall>>

\* objectKey := fmt.Sprintf("%s%s", prefix, objectName), and the entry of
\* UploadFileWithPolicy(policy, localFile, objectKey) with an empty form.
UploadBegin ==
    /\ pc = "UploadFileWithPolicy"
    /\ upl' = [NoUpl EXCEPT !.objectKey = prefix \o ObjectName,
                            !.todo = DOMAIN policy.Fields]
    /\ pc' = "WriteFields"
    /\ UNCHANGED <<calls, jobID, policy, prefix, file, requests, stdout,
                   polCall, scopes, gzCall>>

\* One turn of "for k, v := range policy.Fields": a map is ranged over in any
\* order; writer.WriteField(k, v) adds a part or fails.
UploadWriteField ==
    /\ pc = "WriteFields"
    /\ \E k \in upl.todo :
          \/ /\ upl' = [upl EXCEPT !.parts = Append(@, FieldPart(k, policy.Fields[k])),
                                   !.todo = @ \ {k}]
             /\ UNCHANGED <<pc, calls>>
          \/ /\ UploadReturns(Wrap("write field"))
             /\ UNCHANGED upl
    /\ UNCHANGED <<jobID, policy, prefix, file, requests, stdout, polCall, scopes, gzCall>>

\* fileWriter, err := writer.CreateFormFile("file", localFile), after the loop.
UploadCreateFormFile ==
    /\ pc = "WriteFields"
    /\ upl.todo = {}
    /\ \/ /\ upl' = [upl EXCEPT !.parts = Append(@, FilePart(LocalFile))]
          /\ pc' = "Open"
          /\ UNCHANGED calls
       \/ /\ UploadReturns(Wrap("create form file"))
          /\ UNCHANGED upl
    /\ UNCHANGED <<jobID, policy, prefix, file, requests, stdout, polCall, scopes, gzCall>>

\* file, err := os.Open(localFile) and io.Copy(fileWriter, file): the file's
\* bytes become the data of the part opened last.
UploadCopyFile ==
    /\ pc = "Open"
    /\ \/ /\ upl' = [upl EXCEPT !.parts[Len(upl.parts)].data = file]
          /\ pc' = "Close"
          /\ UNCHANGED calls
       \/ /\ \E msg \in {"open file", "copy file"} : UploadReturns(Wrap(msg))
          /\ UNCHANGED upl
    /\ UNCHANGED <<jobID, policy, prefix, file, requests, stdout, polCall, scopes, gzCall>>

\* writer.Close(), then http.NewRequest("POST", policy.URL, &buf).
UploadNewRequest ==
    /\ pc = "Close"
    /\ \/ /\ upl' = WriterClose(upl)
          /\ pc' = "Do"
          /\ UNCHANGED calls
       \/ /\ upl' = WriterClose(upl)
          /\ UploadReturns(Wrap("new request"))
    /\ UNCHANGED <<jobID, policy, prefix, file, requests, stdout, polCall, scopes, gzCall>>

\* resp, err := http.DefaultClient.Do(req); body, _ := io.ReadAll(resp.Body)
UploadDo ==
    /\ pc = "Do"
    /\ requests' = Append(requests, [method |-> "POST", url |-> policy.URL,
                                     parts |-> upl.parts, closed |-> upl.closed])
    /\ \/ /\ UploadReturns(Wrap("upload error"))
          /\ UNCHANGED upl
       \/ /\ \E status \in Statuses, body \in ResponseBodies :
                upl' = [upl EXCEPT !.status = status, !.body = body]
          /\ pc' = "CheckStatus"
          /\ UNCHANGED calls
    /\ UNCHANGED <<jobID, policy, prefix, file, stdout, polCall, scopes, gzCall>>

\* The test of resp.StatusCode: an error with the status and the body, or the
\* success message and nil.
UploadCheckStatus ==
    /\ pc = "CheckStatus"
    /\ IF StatusAccepted(upl.status)
       THEN /\ stdout' = Append(stdout, Printed("Upload succeeded! Object key:", upl.objectKey))
            /\ UploadReturns(Nil)
       ELSE /\ UploadReturns(Err("upload failed", upl.status, upl.body))
            /\ UNCHANGED stdout
    /\ UNCHANGED <<jobID, policy, prefix, file, upl, requests, polCall, scopes, gzCall>>

Init ==
    /\ pc = "NewClient"
    /\ calls = <<>>
    /\ jobID = <<>>
    /\ policy = NoPolicy
    /\ prefix = <<>>
    /\ file \in InitialFiles
    /\ upl = NoUpl
    /\ requests = <<>>
    /\ stdout = <<>>
    /\ polCall = NoPolCall
    /\ scopes = {}
    /\ gzCall = NoGzCall

Next ==
    \/ MainNewClient
    \/ MainGenerateUploadPolicy
    \/ MainCreateGzippedFile
    \/ UploadBegin
    \/ UploadWriteField
    \/ UploadCreateFormFile
    \/ UploadCopyFile
    \/ UploadNewRequest
    \/ UploadDo
    \/ UploadCheckStatus

Spec == Init /\ [][Next]_vars

NextPolicy == CallGenerateUploadPolicy

SpecPolicy == Init /\ [][NextPolicy]_vars

NextIsolation == IssuePolicy

SpecIsolation == Init /\ [][NextIsolation]_vars

----------------------------------------------------------------------------
(* Claims about main and UploadFileWithPolicy. *)

SuccessPrinted == \E i \in DOMAIN stdout : stdout[i].msg = "Upload succeeded! Object key:"

\* The steps of main, in the order of the script.
StepOrder ==
    <<"storage.NewClient", "GenerateUploadPolicy", "CreateGzippedFile", "UploadFileWithPolicy">>

\* C1: in every run the steps are called in the fixed order (the client, then
\* GenerateUploadPolicy, then CreateGzippedFile, then UploadFileWithPolicy), a
\* POST is handed to the HTTP client only after the policy was generated and the
\* gzipped file was written, both without error, and at most one POST is made.
C1_FixedOrder ==
    /\ Len(calls) <= Len(StepOrder)
    /\ \A i \in DOMAIN calls : calls[i].fn = StepOrder[i]
    /\ Len(requests) <= 1
    /\ requests # <<>> =>
          /\ Len(calls) >= 3
          /\ calls[2].err = Nil
          /\ calls[3].err = Nil
          /\ policy # NoPolicy
          /\ IsGzipStream(file)
          /\ requests[1].method = "POST"

\* C1's case: a run that went through all three steps and made its POST.
C1_Witness ==
    /\ pc = "Exit"
    /\ Len(calls) = 4
    /\ Len(requests) = 1

\* C2: when a step fails, main is at its fatal exit, the failed step is the last
\* one called, no step was called twice, nothing of a later step has happened and
\* the success message is not printed; main is at its fatal exit only for a
\* failed step.
C2_FailFast ==
    /\ \A i \in DOMAIN calls :
          calls[i].err # Nil =>
              /\ i = Len(calls)
              /\ pc = "Fatal"
              /\ ~SuccessPrinted
              /\ calls[i].fn # "UploadFileWithPolicy" => upl = NoUpl /\ requests = <<>>
              /\ calls[i].fn = "storage.NewClient" => policy = NoPolicy /\ stdout = <<>>
    /\ \A i \in DOMAIN calls, j \in DOMAIN calls : calls[i].fn = calls[j].fn => i = j
    /\ pc = "Fatal" => calls # <<>> /\ calls[Len(calls)].err # Nil

\* C2's case: GenerateUploadPolicy failed and main stopped there.
C2_Witness ==
    /\ pc = "Fatal"
    /\ Len(calls) = 2
    /\ calls[2].fn = "GenerateUploadPolicy"
    /\ calls[2].err # Nil

\* The object key the bucket stores an upload under: the key template with its
\* trailing "${filename}" replaced by the file name of the file part.
ExpandFilename(template, filename) ==
    IF IsSuffix(FilenameVar, template)
    THEN SubSeq(template, 1, Len(template) - Len(FilenameVar)) \o filename
    ELSE template

\* C5: when the upload succeeds, the object key printed in the success message
\* is the policy's key template with ${filename} replaced by the file name sent
\* in the file part of the request.
C5_PrintedKeyIsStoredKey ==
    \A i \in DOMAIN stdout :
        stdout[i].msg = "Upload succeeded! Object key:" =>
            /\ Len(requests) = 1
            /\ LET parts == requests[1].parts
               IN  \A f \in DOMAIN parts, k \in DOMAIN parts :
                       (parts[f].name = "file" /\ parts[k].name = "key") =>
                           stdout[i].arg = ExpandFilename(parts[k].value, parts[f].filename)

\* C6: once the POST has a response, UploadFileWithPolicy returns nil and prints
\* the success message exactly when the status is 200 or 204; for any other
\* status it returns an error with the status and the body and prints no success
\* message.
C6_StatusDecides ==
    /\ pc = "CheckStatus" => ~SuccessPrinted /\ Len(calls) = 3
    /\ (Len(calls) = 4 /\ upl.status # 0) =>
          /\ (calls[4].err = Nil /\ SuccessPrinted) <=> upl.status \in {200, 204}
          /\ upl.status \notin {200, 204} =>
                /\ calls[4].err = [msg |-> "upload failed", status |-> upl.status,
                                   body |-> upl.body]
                /\ ~SuccessPrinted
          /\ upl.status \in {200, 204} =>
                stdout[Len(stdout)] = Printed("Upload succeeded! Object key:", upl.objectKey)

\* C6's case: a 2xx status other than 200 and 204 came back and the upload
\* returned its error.
C6_Witness ==
    /\ Len(calls) = 4
    /\ upl.status = 201
    /\ calls[4].err.msg = "upload failed"
    /\ calls[4].err.body = <<"AccessDenied">>

\* C7: in the body of every request sent, each field of policy.Fields is there
\* exactly once, with its value, before the one "file" part, which is the last
\* part, whatever the order the fields were ranged over; and the multipart writer
\* was closed before the request was sent.
C7_FormOrder ==
    \A r \in DOMAIN requests :
        LET parts == requests[r].parts
            n     == Len(parts)
        IN  /\ requests[r].closed
            /\ n = Cardinality(DOMAIN policy.Fields) + 1
            /\ parts[n].name = "file"
            /\ parts[n].data = file
            /\ Cardinality({i \in 1..n : parts[i].name = "file"}) = 1
            /\ \A k \in DOMAIN policy.Fields :
                  /\ Cardinality({i \in 1..n : parts[i].name = k}) = 1
                  /\ \A i \in 1..n :
                        parts[i].name = k => i < n /\ parts[i].value = policy.Fields[k]

\* C7's case: a request whose fields were ranged over in an order that is neither
\* the one they were set in nor the alphabetical one.
C7_Witness ==
    /\ Len(requests) = 1
    /\ Len(requests[1].parts) = 5
    /\ requests[1].parts[1].name = "x-goog-signature"
    /\ requests[1].parts[2].name = "key"
    /\ requests[1].parts[3].name = "policy"
    /\ requests[1].parts[4].name = "Content-Encoding"
    /\ requests[1].parts[5].name = "file"

----------------------------------------------------------------------------
(* Claims about GenerateUploadPolicy. *)

\* C3: for every username and jobID, a policy that GenerateUploadPolicy returns
\* has a starts-with condition on $key whose value is exactly
\* "<username>/<jobID>/", asks for the key template made of that prefix followed
\* by "${filename}" (which therefore satisfies the condition), and comes with a
\* returned prefix equal to the condition's value.
C3_PrefixScope ==
    (polCall.called /\ polCall.res.err = Nil) =>
        LET expected == polCall.username \o <<"/">> \o polCall.jobID \o <<"/">>
            p        == polCall.res.policy
            keyConds == {i \in DOMAIN p.Conditions : p.Conditions[i].field = "$key"}
        IN  /\ Cardinality(keyConds) = 1
            /\ \A i \in keyConds :
                  /\ p.Conditions[i].op = "starts-with"
                  /\ p.Conditions[i].value = expected
                  /\ AcceptsKey(p.Conditions[i], p.Fields["key"])
                  /\ polCall.res.prefix = p.Conditions[i].value
            /\ p.Fields["key"]
                 = expected \o <<"$", "{", "f", "i", "l", "e", "n", "a", "m", "e", "}">>

\* C3's case: a policy was returned for a username and a job id that are not empty.
C3_Witness ==
    /\ polCall.called
    /\ polCall.res.err = Nil
    /\ polCall.username = <<"a">>
    /\ polCall.jobID = <<"a", "a">>
    /\ polCall.res.prefix = <<"a", "/", "a", "a", "/">>

\* C4: the expiry of a policy is the generation instant plus exactly
\* expireMinutes minutes, for every value of expireMinutes, and so is strictly
\* later than the generation instant whenever expireMinutes is positive.
C4_ExpiryExact ==
    (polCall.called /\ polCall.res.err = Nil) =>
        LET expires == polCall.res.policy.Expires
        IN  /\ expires.wall = polCall.now
            /\ SignExt(expires.add, 2 * Int64Limbs)
                 = ExactProduct(polCall.expireMinutes, Minute)
            /\ IsPositive(polCall.expireMinutes) => IsPositive(expires.add)

\* C9: for any two distinct (username, jobID) pairs the prefixes of the policies
\* issued are distinct, neither is a prefix of the other, and no object key is
\* accepted by the $key conditions of both.
C9_ScopesIsolated ==
    \A s1 \in scopes, s2 \in scopes :
        (<<s1.username, s1.jobID>> # <<s2.username, s2.jobID>>) =>
            /\ s1.prefix # s2.prefix
            /\ ~IsPrefix(s1.prefix, s2.prefix)
            /\ ~IsPrefix(s2.prefix, s1.prefix)
            /\ \A key \in {s1.prefix \o <<"f">>, s2.prefix \o <<"f">>} :
                  ~(AcceptsKey(s1.keyCondition, key) /\ AcceptsKey(s2.keyCondition, key))

NextGzip == CallCreateGzippedFile

SpecGzip == Init /\ [][NextGzip]_vars

----------------------------------------------------------------------------
(* Claims about CreateGzippedFile. *)

\* C8: for every content, the empty one included, when CreateGzippedFile returns
\* nil the file holds exactly one complete gzip stream that decompresses to
\* content, whatever the file held before; when the gzip write or close fails the
\* file is what it was before the call.
C8_GzipRoundTrip ==
    gzCall.called =>
        /\ gzCall.err = Nil => IsGzipStream(file) /\ Gunzip(file) = gzCall.content
        /\ gzCall.err.msg \in {"gzip write", "gzip close"} => file = gzCall.old
    
\* C8's case: a successful call that replaced the stream of an earlier call.
C8_Witness ==
    /\ gzCall.called
    /\ gzCall.err = Nil
    /\ gzCall.content = <<"x", "x">>
    /\ IsGzipStream(gzCall.old)
    /\ Gunzip(gzCall.old) = <<"y">>
    /\ file # gzCall.old

====
